---- MODULE Spec2Model ----
(* Track reconstruction and coverage-dropout detection of process.py:      *)
(* World -> Aircraft -> Flight -> Position, driven one update at a time.   *)
EXTENDS Integers, Sequences, FiniteSets, TLC

VARIABLES aircraft, dropouts, now, steps, errored, lastfix, pairs, gc

vars == <<aircraft, dropouts, now, steps, errored, lastfix, pairs, gc>>

\* ---------------------------------------------------------------- bounds
MaxSteps == 3
\* how far beyond 1.0 or -1.0 rounding may push the value computed for acos,
\* in units of 1/One
MaxOvershoot == 20

\* ------------------------------------------------------- program constants
LAST_POS_THRESHOLD == 60

MessageType ==
    {"adsb_icao", "adsb_icao_nt", "adsr_icao", "tisb_icao", "adsc", "mlat",
     "other", "mode_s", "adsb_other", "adsr_other", "tisb_other",
     "tisb_trackfile"}

\* ------------------------------------------------------------ input domain
\* Python's None is the empty sequence, a value v that may be None is <<v>>.
None == <<>>
Some(v) == <<v>>

Hexes == {"h1", "h2"}
Regs == {"R1"}
Models == {"T1"}
\* flight labels: one equal to a hex and one equal to a registration, so that
\* an update can carry the label an aircraft got by default
Flights == {"h1", "R1"}
Types == {"mlat", "bogus"}
Times == {0, 59, 60, 120}

\* A key that may be missing from the update dict.
Opt(k, S) == {<<>>} \cup {k :> v : v \in S}

\* lat/lon: a valid fix, the 0/0 fix, and a fix with one coordinate missing
ValidFix == ("lat" :> 10) @@ ("lon" :> 20)
LatLons == {ValidFix, ("lat" :> 0) @@ ("lon" :> 0), ("lon" :> 20), ("lat" :> 10)}

\* registration and model come from the aircraft database: both or neither
DbFields == {<<>>} \cup {("r" :> r) @@ ("t" :> t) : r \in Regs, t \in Models}

\* updates whose seen age is below the threshold and that carry no marker
FreshUpdates ==
    { b @@ ll @@ db @@ f :
        b \in [hex : Hexes, type : Types, alt_geom : {200}, seen : {59}],
        ll \in LatLons, db \in DbFields, f \in Opt("flight", Flights) }

\* updates with a seen age at the threshold or with the lastPosition marker
StaleUpdates ==
    { b @@ st @@ ll @@ f :
        b \in [hex : Hexes, type : {"mlat"}, alt_geom : {200}],
        st \in {("seen" :> 60), ("seen" :> 59) @@ ("lastPosition" :> TRUE)},
        ll \in {ValidFix, ("lat" :> 0) @@ ("lon" :> 0)},
        f \in Opt("flight", Flights) }

Updates == FreshUpdates \cup StaleUpdates

\* dict.get(key, default), the result being a value that may be None
Get(update, k, default) == IF k \in DOMAIN update THEN Some(update[k]) ELSE default

\* Python truthiness of the values the code tests
\* mutant: only None counts as missing, 0 is a coordinate
TruthyNum_notNone(x) == x # None
TruthyNum(x) == x # None /\ x[1] # 0
TruthyStr(x) == x # None /\ x[1] # ""

\* ---------------------------------------------------------------- Position
\* MessageType(update['type']) raises ValueError outside the enumeration
PositionRaises(update) == update["type"] \notin MessageType

\* mutant: the seen age is added to the observation time
Position_late(update, update_time) ==
    [time |-> update_time + update["seen"],
     lat  |-> update["lat"],
     long |-> update["lon"],
     alt  |-> Get(update, "alt_baro", Get(update, "alt_geom", None)),
     type |-> update["type"]]

Position(update, update_time) ==
    [time |-> update_time,
     lat  |-> update["lat"],
     long |-> update["lon"],
     alt  |-> Get(update, "alt_baro", Get(update, "alt_geom", None)),
     type |-> update["type"]]

\* ----------------------------------------------------------------- Dropout
\* mutant: the two positions are stored in the wrong order
Dropout_swapped(hex, start, end) == [hex |-> hex, start |-> end, end |-> start]
Dropout(hex, start, end) == [hex |-> hex, start |-> start, end |-> end]

\* ------------------------------------------------------------------ Flight
\* Result of a method: the object after the call, the returned value and
\* whether the call raised.
\* mutant: the gap is compared with > instead of >=
Flight_process_update_gt(flight, update, update_time) ==
    IF ~TruthyNum(Get(update, "lat", None)) \/ ~TruthyNum(Get(update, "lon", None))
    THEN [flight |-> flight, ret |-> None, raised |-> FALSE]
    ELSE IF PositionRaises(update)
    THEN [flight |-> flight, ret |-> None, raised |-> TRUE]
    ELSE LET last_last_pos == flight.last_position
             new == [flight EXCEPT !.last_position = Some(Position(update, update_time))]
         IN IF last_last_pos # None
               /\ update_time - last_last_pos[1].time > LAST_POS_THRESHOLD
            THEN [flight |-> new,
                  ret |-> Some(Dropout(update["hex"], last_last_pos[1], new.last_position[1])),
                  raised |-> FALSE]
            ELSE [flight |-> new, ret |-> None, raised |-> FALSE]

\* mutant: the comparison with the threshold is reversed
Flight_process_update_le(flight, update, update_time) ==
    IF ~TruthyNum(Get(update, "lat", None)) \/ ~TruthyNum(Get(update, "lon", None))
    THEN [flight |-> flight, ret |-> None, raised |-> FALSE]
    ELSE IF PositionRaises(update)
    THEN [flight |-> flight, ret |-> None, raised |-> TRUE]
    ELSE LET last_last_pos == flight.last_position
             new == [flight EXCEPT !.last_position = Some(Position(update, update_time))]
         IN IF last_last_pos # None
               /\ update_time - last_last_pos[1].time <= LAST_POS_THRESHOLD
            THEN [flight |-> new,
                  ret |-> Some(Dropout(update["hex"], last_last_pos[1], new.last_position[1])),
                  raised |-> FALSE]
            ELSE [flight |-> new, ret |-> None, raised |-> FALSE]

\* mutant: a Flight without a last position measures the gap from time 0
Flight_process_update_epoch(flight, update, update_time) ==
    IF ~TruthyNum(Get(update, "lat", None)) \/ ~TruthyNum(Get(update, "lon", None))
    THEN [flight |-> flight, ret |-> None, raised |-> FALSE]
    ELSE IF PositionRaises(update)
    THEN [flight |-> flight, ret |-> None, raised |-> TRUE]
    ELSE LET new == [flight EXCEPT !.last_position = Some(Position(update, update_time))]
             last_last_pos == IF flight.last_position # None
                              THEN flight.last_position
                              ELSE Some([new.last_position[1] EXCEPT !.time = 0])
         IN IF update_time - last_last_pos[1].time >= LAST_POS_THRESHOLD
            THEN [flight |-> new,
                  ret |-> Some(Dropout(update["hex"], last_last_pos[1], new.last_position[1])),
                  raised |-> FALSE]
            ELSE [flight |-> new, ret |-> None, raised |-> FALSE]

\* mutant: an update without a position refreshes the time of the last one
Flight_process_update_touch(flight, update, update_time) ==
    IF ~TruthyNum(Get(update, "lat", None)) \/ ~TruthyNum(Get(update, "lon", None))
    THEN [flight |-> IF flight.last_position = None THEN flight
                     ELSE [flight EXCEPT !.last_position[1].time = update_time],
          ret |-> None, raised |-> FALSE]
    ELSE IF PositionRaises(update)
    THEN [flight |-> flight, ret |-> None, raised |-> TRUE]
    ELSE LET last_last_pos == flight.last_position
             new == [flight EXCEPT !.last_position = Some(Position(update, update_time))]
         IN IF last_last_pos # None
               /\ update_time - last_last_pos[1].time >= LAST_POS_THRESHOLD
            THEN [flight |-> new,
                  ret |-> Some(Dropout(update["hex"], last_last_pos[1], new.last_position[1])),
                  raised |-> FALSE]
            ELSE [flight |-> new, ret |-> None, raised |-> FALSE]

\* mutant: the gap is taken as an absolute value
Flight_process_update_abs(flight, update, update_time) ==
    IF ~TruthyNum(Get(update, "lat", None)) \/ ~TruthyNum(Get(update, "lon", None))
    THEN [flight |-> flight, ret |-> None, raised |-> FALSE]
    ELSE IF PositionRaises(update)
    THEN [flight |-> flight, ret |-> None, raised |-> TRUE]
    ELSE LET last_last_pos == flight.last_position
             new == [flight EXCEPT !.last_position = Some(Position(update, update_time))]
         IN IF last_last_pos # None
               /\ \/ update_time - last_last_pos[1].time >= LAST_POS_THRESHOLD
                  \/ last_last_pos[1].time - update_time >= LAST_POS_THRESHOLD
            THEN [flight |-> new,
                  ret |-> Some(Dropout(update["hex"], last_last_pos[1], new.last_position[1])),
                  raised |-> FALSE]
            ELSE [flight |-> new, ret |-> None, raised |-> FALSE]

\* mutant: last_position is reset before the new Position is constructed
Flight_process_update_clear(flight, update, update_time) ==
    IF ~TruthyNum(Get(update, "lat", None)) \/ ~TruthyNum(Get(update, "lon", None))
    THEN [flight |-> flight, ret |-> None, raised |-> FALSE]
    ELSE IF PositionRaises(update)
    THEN [flight |-> [flight EXCEPT !.last_position = None],
          ret |-> None, raised |-> TRUE]
    ELSE LET last_last_pos == flight.last_position
             new == [flight EXCEPT !.last_position = Some(Position(update, update_time))]
         IN IF last_last_pos # None
               /\ update_time - last_last_pos[1].time >= LAST_POS_THRESHOLD
            THEN [flight |-> new,
                  ret |-> Some(Dropout(update["hex"], last_last_pos[1], new.last_position[1])),
                  raised |-> FALSE]
            ELSE [flight |-> new, ret |-> None, raised |-> FALSE]

Flight_process_update(flight, update, update_time) ==
    IF ~TruthyNum(Get(update, "lat", None)) \/ ~TruthyNum(Get(update, "lon", None))
    THEN [flight |-> flight, ret |-> None, raised |-> FALSE]
    ELSE IF PositionRaises(update)
    THEN [flight |-> flight, ret |-> None, raised |-> TRUE]
    ELSE LET last_last_pos == flight.last_position
             new == [flight EXCEPT !.last_position = Some(Position(update, update_time))]
         IN IF last_last_pos # None
               /\ update_time - last_last_pos[1].time >= LAST_POS_THRESHOLD
            THEN [flight |-> new,
                  ret |-> Some(Dropout(update["hex"], last_last_pos[1], new.last_position[1])),
                  raised |-> FALSE]
            ELSE [flight |-> new, ret |-> None, raised |-> FALSE]

\* id is the identity of the Flight object: the number of Flight objects the
\* aircraft has owned before it.
Flight_init(id, update, update_time) ==
    Flight_process_update([last_position |-> None, id |-> id], update, update_time)

\* ---------------------------------------------------------------- Aircraft
\* id is the identity of the Aircraft object: the number of Aircraft objects
\* stored under its key before it.
Aircraft_init(id, update, update_time) ==
    LET registration == Get(update, "r", None)
        f == Flight_init(0, update, update_time)
    IN [aircraft |->
          [hex |-> update["hex"],
           registration |-> registration,
           type |-> Get(update, "t", None),
           current_flight |->
               Get(update, "flight",
                   IF TruthyStr(registration) THEN registration
                                              ELSE Some(update["hex"]))[1],
           flight |-> f.flight,
           id |-> id],
        raised |-> f.raised]

\* mutant: on a callsign change the update is also run through the old
\* Flight and its Dropout is returned
Aircraft_process_update_gap(self, update, update_time) ==
    LET a1 == [self EXCEPT !.registration = Get(update, "r", self.registration)]
        a2 == [a1 EXCEPT !.type = Get(update, "t", a1.type)]
        label == Get(update, "flight", Some(a2.current_flight))[1]
    IN IF a2.current_flight # label
       THEN LET a3 == [a2 EXCEPT !.current_flight = label]
                f == Flight_init(a3.flight.id + 1, update, update_time)
            IN IF f.raised
               THEN [aircraft |-> a3, ret |-> None, raised |-> TRUE]
               ELSE [aircraft |-> [a3 EXCEPT !.flight = f.flight],
                     ret |-> Flight_process_update(a2.flight, update, update_time).ret,
                     raised |-> FALSE]
       ELSE LET f == Flight_process_update(a2.flight, update, update_time)
            IN [aircraft |-> [a2 EXCEPT !.flight = f.flight],
                ret |-> f.ret, raised |-> f.raised]

\* mutant: a field missing from the update resets the stored value
Aircraft_process_update_reset(self, update, update_time) ==
    LET a1 == [self EXCEPT !.registration = Get(update, "r", None)]
        a2 == [a1 EXCEPT !.type = Get(update, "t", None)]
        label == Get(update, "flight", Some(a2.current_flight))[1]
    IN IF a2.current_flight # label
       THEN LET a3 == [a2 EXCEPT !.current_flight = label]
                f == Flight_init(a3.flight.id + 1, update, update_time)
            IN IF f.raised
               THEN [aircraft |-> a3, ret |-> None, raised |-> TRUE]
               ELSE [aircraft |-> [a3 EXCEPT !.flight = f.flight],
                     ret |-> None, raised |-> FALSE]
       ELSE LET f == Flight_process_update(a2.flight, update, update_time)
            IN [aircraft |-> [a2 EXCEPT !.flight = f.flight],
                ret |-> f.ret, raised |-> f.raised]

Aircraft_process_update(self, update, update_time) ==
    LET a1 == [self EXCEPT !.registration = Get(update, "r", self.registration)]
        a2 == [a1 EXCEPT !.type = Get(update, "t", a1.type)]
        label == Get(update, "flight", Some(a2.current_flight))[1]
    IN IF a2.current_flight # label
       THEN LET a3 == [a2 EXCEPT !.current_flight = label]
                f == Flight_init(a3.flight.id + 1, update, update_time)
            IN IF f.raised
               THEN [aircraft |-> a3, ret |-> None, raised |-> TRUE]
               ELSE [aircraft |-> [a3 EXCEPT !.flight = f.flight],
                     ret |-> None, raised |-> FALSE]
       ELSE LET f == Flight_process_update(a2.flight, update, update_time)
            IN [aircraft |-> [a2 EXCEPT !.flight = f.flight],
                ret |-> f.ret, raised |-> f.raised]

\* ------------------------------------------------------------------- World
\* mutant: the seen age is compared with > instead of >=
Stale_gt(aircraft_update) ==
    \/ Get(aircraft_update, "lastPosition", None) = Some(TRUE)
    \/ aircraft_update["seen"] > LAST_POS_THRESHOLD

Stale(aircraft_update) ==
    \/ Get(aircraft_update, "lastPosition", None) = Some(TRUE)
    \/ aircraft_update["seen"] >= LAST_POS_THRESHOLD

\* mutant: a Dropout is inserted at the head of the list
World_process_aircraft_prepend(w, aircraft_update, update_time) ==
    LET hex == aircraft_update["hex"]
    IN IF Stale(aircraft_update)
       THEN [aircraft |-> w.aircraft, dropouts |-> w.dropouts, raised |-> FALSE]
       ELSE IF hex \in DOMAIN w.aircraft
       THEN LET r == Aircraft_process_update(w.aircraft[hex], aircraft_update, update_time)
            IN [aircraft |-> [w.aircraft EXCEPT ![hex] = r.aircraft],
                dropouts |-> IF r.ret # None THEN <<r.ret[1]>> \o w.dropouts
                                             ELSE w.dropouts,
                raised |-> r.raised]
       ELSE LET r == Aircraft_init(0, aircraft_update, update_time)
            IN IF r.raised
               THEN [aircraft |-> w.aircraft, dropouts |-> w.dropouts, raised |-> TRUE]
               ELSE [aircraft |-> (hex :> r.aircraft) @@ w.aircraft,
                     dropouts |-> w.dropouts, raised |-> FALSE]

\* mutant: an update that returns no Dropout stores a new Aircraft under the
\* key of the known one
World_process_aircraft_recreate(w, aircraft_update, update_time) ==
    LET hex == aircraft_update["hex"]
    IN IF Stale(aircraft_update)
       THEN [aircraft |-> w.aircraft, dropouts |-> w.dropouts, raised |-> FALSE]
       ELSE IF hex \in DOMAIN w.aircraft
       THEN LET r == Aircraft_process_update(w.aircraft[hex], aircraft_update, update_time)
                n == Aircraft_init(w.aircraft[hex].id + 1, aircraft_update, update_time)
            IN IF r.ret # None
               THEN [aircraft |-> [w.aircraft EXCEPT ![hex] = r.aircraft],
                     dropouts |-> Append(w.dropouts, r.ret[1]),
                     raised |-> r.raised]
               ELSE [aircraft |-> IF n.raised THEN w.aircraft
                                  ELSE [w.aircraft EXCEPT ![hex] = n.aircraft],
                     dropouts |-> w.dropouts, raised |-> n.raised]
       ELSE LET r == Aircraft_init(0, aircraft_update, update_time)
            IN IF r.raised
               THEN [aircraft |-> w.aircraft, dropouts |-> w.dropouts, raised |-> TRUE]
               ELSE [aircraft |-> (hex :> r.aircraft) @@ w.aircraft,
                     dropouts |-> w.dropouts, raised |-> FALSE]

\* mutant: last_position is shared by all Flights (a class attribute), so the
\* position stored for one aircraft shows up in every other one
World_process_aircraft_shared(w, aircraft_update, update_time) ==
    LET hex == aircraft_update["hex"]
        Share(m) ==
            [k \in DOMAIN m |->
                [m[k] EXCEPT !.flight.last_position = m[hex].flight.last_position]]
    IN IF Stale(aircraft_update)
       THEN [aircraft |-> w.aircraft, dropouts |-> w.dropouts, raised |-> FALSE]
       ELSE IF hex \in DOMAIN w.aircraft
       THEN LET r == Aircraft_process_update(w.aircraft[hex], aircraft_update, update_time)
            IN [aircraft |-> Share([w.aircraft EXCEPT ![hex] = r.aircraft]),
                dropouts |-> IF r.ret # None THEN Append(w.dropouts, r.ret[1])
                                             ELSE w.dropouts,
                raised |-> r.raised]
       ELSE LET r == Aircraft_init(0, aircraft_update, update_time)
            IN IF r.raised
               THEN [aircraft |-> w.aircraft, dropouts |-> w.dropouts, raised |-> TRUE]
               ELSE [aircraft |-> Share((hex :> r.aircraft) @@ w.aircraft),
                     dropouts |-> w.dropouts, raised |-> FALSE]

\* World.process_aircraft on the world w = [aircraft, dropouts].
World_process_aircraft(w, aircraft_update, update_time) ==
    LET hex == aircraft_update["hex"]
    IN IF Stale(aircraft_update)
       THEN [aircraft |-> w.aircraft, dropouts |-> w.dropouts, raised |-> FALSE]
       ELSE IF hex \in DOMAIN w.aircraft
       THEN LET r == Aircraft_process_update(w.aircraft[hex], aircraft_update, update_time)
            IN [aircraft |-> [w.aircraft EXCEPT ![hex] = r.aircraft],
                dropouts |-> IF r.ret # None THEN Append(w.dropouts, r.ret[1])
                                             ELSE w.dropouts,
                raised |-> r.raised]
       ELSE LET r == Aircraft_init(0, aircraft_update, update_time)
            IN IF r.raised
               THEN [aircraft |-> w.aircraft, dropouts |-> w.dropouts, raised |-> TRUE]
               ELSE [aircraft |-> (hex :> r.aircraft) @@ w.aircraft,
                     dropouts |-> w.dropouts, raised |-> FALSE]


\* ------------------------------------------------------------ great_circle
\* Dropout.great_circle from the value x of line 72 on.  x is a float that
\* is in [-1.0, 1.0] up to rounding; it is counted here in units of 1/One,
\* One standing for 1.0.  math.acos raises ValueError outside [-1.0, 1.0].
One == 100

\* mutant: the lower clamp is missing
Dropout_great_circle_noLower(x) ==
    LET arg == IF x > One THEN One ELSE x
    IN [x |-> x, arg |-> arg, raised |-> arg > One \/ arg < -One]

Dropout_great_circle(x) ==
    LET arg == IF x > One THEN One ELSE IF x < -One THEN -One ELSE x
    IN [x |-> x, arg |-> arg, raised |-> arg > One \/ arg < -One]

\* ------------------------------------------------------------ state machine
Init ==
    /\ aircraft = <<>>
    /\ dropouts = <<>>
    /\ now = 0
    /\ steps = 0
    /\ errored = FALSE
    /\ lastfix = <<>>
    /\ pairs = 0
    /\ gc = None

ValidPosition(update) ==
    /\ "lat" \in DOMAIN update /\ update["lat"] # 0
    /\ "lon" \in DOMAIN update /\ update["lon"] # 0

\* main(): one call world.process_aircraft(aircraft, data_time)
ProcessAircraft(update, update_time) ==
    /\ steps < MaxSteps
    /\ LET w == World_process_aircraft([aircraft |-> aircraft, dropouts |-> dropouts],
                                       update, update_time)
           hex == update["hex"]
           fix == ~Stale(update) /\ ValidPosition(update) /\ ~w.raised
       IN /\ aircraft' = w.aircraft
          /\ dropouts' = w.dropouts
          /\ now' = update_time
          /\ errored' = (errored \/ w.raised)
          /\ lastfix' = IF fix
                        THEN (hex :> [time |-> update_time, flight |-> w.aircraft[hex].flight.id])
                             @@ lastfix
                        ELSE lastfix
          /\ pairs' = IF /\ fix
                         /\ hex \in DOMAIN lastfix
                         /\ lastfix[hex].flight = w.aircraft[hex].flight.id
                         /\ update_time - lastfix[hex].time >= LAST_POS_THRESHOLD
                      THEN pairs + 1 ELSE pairs
    /\ steps' = steps + 1
    /\ gc' = gc

\* the ingestion driver: main() sorts the snapshot files, so data_time never
\* decreases from one call to the next
Next ==
    \E update \in Updates, update_time \in Times :
        /\ update_time >= now
        /\ ProcessAircraft(update, update_time)

Spec == Init /\ [][Next]_vars

\* a caller of World.process_aircraft that delivers in any order
NextAnyOrder ==
    \E update \in Updates, update_time \in Times : ProcessAircraft(update, update_time)

SpecAnyOrder == Init /\ [][NextAnyOrder]_vars

\* str(dropout) / dropout.great_circle() on a Dropout whose two positions
\* give the value x at line 72
GreatCircle(x) ==
    /\ gc' = Some(Dropout_great_circle(x))
    /\ UNCHANGED <<aircraft, dropouts, now, steps, errored, lastfix, pairs>>

NextGreatCircle == \E x \in (-One - MaxOvershoot) .. (One + MaxOvershoot) : GreatCircle(x)

SpecGreatCircle == Init /\ [][NextGreatCircle]_vars

\* ------------------------------------------------------------------ claims
\* The world before a call, whether a further call is made within the bound,
\* and the outcome of the call process_aircraft(u, t) made in this state.
W == [aircraft |-> aircraft, dropouts |-> dropouts]
CanCall == steps < MaxSteps
After(u, t) == World_process_aircraft(W, u, t)

\* The claims' own reading of an update: stale, carrying a position, and
\* carrying a flight label that differs from the aircraft's current one.
ClaimStale(u) ==
    \/ "lastPosition" \in DOMAIN u /\ u["lastPosition"] = TRUE
    \/ u["seen"] >= 60
HasPosition(u) ==
    /\ "lat" \in DOMAIN u /\ u["lat"] # 0
    /\ "lon" \in DOMAIN u /\ u["lon"] # 0
Known(u) == u["hex"] \in DOMAIN aircraft
NewLabel(u) ==
    /\ Known(u)
    /\ "flight" \in DOMAIN u
    /\ u["flight"] # aircraft[u["hex"]].current_flight
LastPos(h) == aircraft[h].flight.last_position

\* C1: under non-decreasing delivery and as long as no call has raised, the
\* length of dropouts equals the number of pairs of consecutive accepted
\* valid-position updates of one hex that fall in the same Flight and are at
\* least 60 s apart (pairs counts them as they are delivered).
C1_DropoutCount == ~errored => Len(dropouts) = pairs

\* one pair 0 -> 60 counted, then a callsign change with a fix 60 s later that
\* is not counted
C1_Witness ==
    /\ ~errored /\ pairs = 1 /\ Len(dropouts) = 1
    /\ dropouts[1].start.time = 0 /\ dropouts[1].end.time = 60
    /\ \E h \in DOMAIN aircraft :
          /\ dropouts[1].hex = h
          /\ aircraft[h].flight.id = 1
          /\ LastPos(h) # None /\ LastPos(h)[1].time = 120

\* C2: a non-stale update for a known hex with a different flight label sets
\* current_flight to the new label, replaces the Flight by a new one seeded
\* with this update and leaves dropouts unchanged, whatever the time gap.
C2_CallsignChange ==
    CanCall =>
      \A u \in Updates, t \in Times :
        (~ClaimStale(u) /\ NewLabel(u)) =>
          LET h == u["hex"]
              a == After(u, t).aircraft[h]
          IN /\ a.current_flight = u["flight"]
             /\ a.flight.id = aircraft[h].flight.id + 1
             /\ a.flight.last_position =
                   (IF HasPosition(u) THEN Some(Position(u, t)) ELSE None)
             /\ After(u, t).dropouts = dropouts

\* C3: a Flight that has a last_position and accepts a valid-position update
\* stores the new Position and yields Dropout(hex, previous, new) exactly
\* when the new time minus the previous time is at least 60 s; World appends
\* exactly that Dropout and nothing otherwise.
C3_Threshold ==
    CanCall =>
      \A u \in Updates, t \in Times :
        (/\ ~ClaimStale(u) /\ Known(u) /\ ~NewLabel(u) /\ HasPosition(u)
         /\ u["type"] \in MessageType
         /\ LastPos(u["hex"]) # None) =>
          LET h == u["hex"]
              previous == LastPos(h)[1]
              new == Position(u, t)
              w == After(u, t)
          IN /\ ~w.raised
             /\ w.aircraft[h].flight.last_position = Some(new)
             /\ w.dropouts = IF t - previous.time >= 60
                             THEN Append(dropouts, Dropout(h, previous, new))
                             ELSE dropouts

\* a dropout whose gap is exactly the threshold has been appended
C3_Witness ==
    /\ Len(dropouts) = 1
    /\ dropouts[1].end.time - dropouts[1].start.time = 60
    /\ \E h \in DOMAIN aircraft :
          dropouts[1].hex = h /\ LastPos(h) = Some(dropouts[1].end)

\* C4: an update with a truthy lastPosition marker or a seen age of 60 or more
\* leaves the aircraft map, every aircraft's fields and Flight, and dropouts
\* unchanged, for a known or unknown hex, with or without a valid position,
\* with or without a new callsign.
C4_StaleIgnored ==
    CanCall =>
      \A u \in Updates, t \in Times :
        ClaimStale(u) =>
          /\ After(u, t).aircraft = aircraft
          /\ After(u, t).dropouts = dropouts
          /\ ~After(u, t).raised

\* a seen age of exactly 60 on an update that would otherwise change the
\* callsign of a known aircraft 60 s or more after its last position
C4_Witness ==
    /\ CanCall
    /\ \E u \in Updates, t \in Times :
          /\ u["seen"] = 60 /\ "lastPosition" \notin DOMAIN u
          /\ NewLabel(u) /\ HasPosition(u)
          /\ LastPos(u["hex"]) # None
          /\ t - LastPos(u["hex"])[1].time >= 60
          /\ After(u, t).aircraft = aircraft
          /\ After(u, t).dropouts = dropouts

\* C5: the call that registers a previously unknown hex appends no Dropout,
\* and neither does a call in which a Flight whose last_position was none
\* (the aircraft's Flight, or the new Flight of a callsign change) gets its
\* first position.
C5_FirstFix ==
    [][\A h \in DOMAIN aircraft' :
          (\/ h \notin DOMAIN aircraft
           \/ /\ h \in DOMAIN aircraft
              /\ aircraft'[h].flight.last_position # None
              /\ \/ aircraft'[h].flight.id # aircraft[h].flight.id
                 \/ LastPos(h) = None)
          => dropouts' = dropouts]_vars

\* a Flight without a position, of an aircraft whose previous Flight had a
\* position at time 0, accepts its first position at time 120
C5_Witness ==
    /\ CanCall
    /\ \E u \in Updates :
          /\ ~ClaimStale(u) /\ Known(u) /\ ~NewLabel(u) /\ HasPosition(u)
          /\ LastPos(u["hex"]) = None
          /\ u["hex"] \in DOMAIN lastfix /\ lastfix[u["hex"]].time = 0
          /\ After(u, 120).aircraft[u["hex"]].flight.last_position
                = Some(Position(u, 120))
          /\ After(u, 120).dropouts = dropouts

\* C6 as stated: an update without a usable lat or lon leaves the whole World
\* (aircraft map, every aircraft's fields and Flight, dropouts) unchanged.
C6_NoPositionNoChange ==
    CanCall =>
      \A u \in Updates, t \in Times :
        ~HasPosition(u) =>
          /\ After(u, t).aircraft = aircraft
          /\ After(u, t).dropouts = dropouts

\* C6 amended: an update without a usable lat or lon raises nothing, appends
\* no Dropout and creates no Position (every Flight's last_position is none
\* or the aircraft's previous one); the World is unchanged when the update
\* is stale or when the hex is known and the update carries no differing
\* registration, type or flight label.
C6_NoPositionNoFix ==
    CanCall =>
      \A u \in Updates, t \in Times :
        ~HasPosition(u) =>
          LET w == After(u, t)
              h == u["hex"]
          IN /\ ~w.raised
             /\ w.dropouts = dropouts
             /\ \A k \in DOMAIN w.aircraft :
                   \/ w.aircraft[k].flight.last_position = None
                   \/ /\ k \in DOMAIN aircraft
                      /\ w.aircraft[k].flight.last_position = LastPos(k)
             /\ (\/ ClaimStale(u)
                 \/ /\ Known(u) /\ ~NewLabel(u)
                    /\ ("r" \in DOMAIN u => Some(u["r"]) = aircraft[h].registration)
                    /\ ("t" \in DOMAIN u => Some(u["t"]) = aircraft[h].type))
                => w.aircraft = aircraft

\* a fresh 0/0 update, 60 s or more after the last position of its aircraft
C6_Witness ==
    /\ CanCall
    /\ \E u \in Updates, t \in Times :
          /\ ~ClaimStale(u) /\ Known(u) /\ ~NewLabel(u)
          /\ "lat" \in DOMAIN u /\ u["lat"] = 0
          /\ "lon" \in DOMAIN u /\ u["lon"] = 0
          /\ LastPos(u["hex"]) # None
          /\ t - LastPos(u["hex"])[1].time >= 60
          /\ After(u, t).dropouts = dropouts
          /\ After(u, t).aircraft[u["hex"]].flight = aircraft[u["hex"]].flight

\* The aircraft map by value: the identities of the objects left out.
ByValue(m) ==
    [h \in DOMAIN m |->
        [hex |-> m[h].hex, registration |-> m[h].registration,
         type |-> m[h].type, current_flight |-> m[h].current_flight,
         last_position |-> m[h].flight.last_position]]

\* C7: feeding the same update with the same time a second time appends no
\* Dropout and leaves the World equal by value to the World after the first
\* call.
C7_Idempotent ==
    CanCall =>
      \A u \in Updates, t \in Times :
        LET w1 == After(u, t)
            w2 == World_process_aircraft(
                      [aircraft |-> w1.aircraft, dropouts |-> w1.dropouts], u, t)
        IN /\ w2.dropouts = w1.dropouts
           /\ ByValue(w2.aircraft) = ByValue(w1.aircraft)

\* the first call appends a Dropout and changes the callsign-free state, the
\* second one changes nothing
C7_Witness ==
    /\ CanCall
    /\ \E u \in Updates, t \in Times :
          LET w1 == After(u, t)
              w2 == World_process_aircraft(
                        [aircraft |-> w1.aircraft, dropouts |-> w1.dropouts], u, t)
          IN /\ Len(w1.dropouts) = Len(dropouts) + 1
             /\ w2.dropouts = w1.dropouts
             /\ ByValue(w2.aircraft) = ByValue(w1.aircraft)

\* C8: under non-decreasing delivery a Flight's last_position.time never
\* decreases from one accepted update to the next, and it never exceeds the
\* latest observation time delivered.
C8_Monotone ==
    [][\A h \in DOMAIN aircraft' :
          aircraft'[h].flight.last_position # None =>
            /\ aircraft'[h].flight.last_position[1].time <= now'
            /\ (/\ h \in DOMAIN aircraft
                /\ aircraft[h].flight.id = aircraft'[h].flight.id
                /\ LastPos(h) # None)
               => aircraft'[h].flight.last_position[1].time >= LastPos(h)[1].time]_vars

\* one Flight has accepted a position at 59 and the next one at 120
C8_Witness ==
    /\ now = 120 /\ Len(dropouts) = 1
    /\ dropouts[1].start.time = 59 /\ dropouts[1].end.time = 120
    /\ LastPos(dropouts[1].hex) = Some(dropouts[1].end)

\* C9: every call leaves the existing dropouts unchanged as a prefix and
\* appends at most one Dropout; under non-decreasing delivery the end.time
\* of the dropouts is non-decreasing along the list.
C9_AppendOnly ==
    [][/\ \/ dropouts' = dropouts
          \/ /\ Len(dropouts') = Len(dropouts) + 1
             /\ SubSeq(dropouts', 1, Len(dropouts)) = dropouts
       /\ \A i \in 1 .. Len(dropouts') - 1 :
             dropouts'[i].end.time <= dropouts'[i + 1].end.time]_vars

\* two dropouts detected one after the other, at 60 and at 120
C9_Witness ==
    /\ Len(dropouts) = 2
    /\ dropouts[1].end.time = 60 /\ dropouts[2].end.time = 120

\* C10 as stated: every update that passes the staleness filter leaves its hex
\* registered (the first one registers it), a stale one registers nothing,
\* every registered key stays, the Aircraft under key h has hex h and is not
\* replaced by another Aircraft object.
C10_Registered ==
    /\ \A h \in DOMAIN aircraft : aircraft[h].hex = h
    /\ CanCall =>
         \A u \in Updates, t \in Times :
           LET w == After(u, t)
           IN /\ ~ClaimStale(u) => u["hex"] \in DOMAIN w.aircraft
              /\ (ClaimStale(u) /\ ~Known(u)) => u["hex"] \notin DOMAIN w.aircraft
              /\ \A k \in DOMAIN aircraft :
                    /\ k \in DOMAIN w.aircraft
                    /\ w.aircraft[k].hex = k
                    /\ w.aircraft[k].id = aircraft[k].id

\* C10 amended: a hex is registered by the first update for it that passes the
\* staleness filter and does not fail (an update with a valid position and a
\* type outside the enumeration raises and registers nothing); the rest as
\* stated.
C10_RegisteredUnlessRaised ==
    /\ \A h \in DOMAIN aircraft : aircraft[h].hex = h
    /\ CanCall =>
         \A u \in Updates, t \in Times :
           LET w == After(u, t)
               fails == HasPosition(u) /\ u["type"] \notin MessageType
           IN /\ (~ClaimStale(u) /\ ~fails) => u["hex"] \in DOMAIN w.aircraft
              /\ (~ClaimStale(u) /\ fails /\ ~Known(u)) =>
                    (w.raised /\ u["hex"] \notin DOMAIN w.aircraft)
              /\ (ClaimStale(u) /\ ~Known(u)) => u["hex"] \notin DOMAIN w.aircraft
              /\ \A k \in DOMAIN aircraft :
                    /\ k \in DOMAIN w.aircraft
                    /\ w.aircraft[k].hex = k
                    /\ w.aircraft[k].id = aircraft[k].id

\* both hexes registered, one of them on its second Flight
C10_Witness ==
    /\ DOMAIN aircraft = Hexes
    /\ \E h \in Hexes : aircraft[h].flight.id = 1

\* C11: an update that passes the staleness filter and whose type is outside
\* the closed set of message kinds makes process_aircraft raise, and it is
\* not accepted: it registers no aircraft, changes no registration, type or
\* flight label and replaces no Flight.
C11_MalformedKindRaises ==
    CanCall =>
      \A u \in Updates, t \in Times :
        (~ClaimStale(u) /\ u["type"] \notin MessageType) =>
          LET w == After(u, t)
              h == u["hex"]
          IN /\ w.raised
             /\ DOMAIN w.aircraft = DOMAIN aircraft
             /\ Known(u) =>
                  /\ w.aircraft[h].registration = aircraft[h].registration
                  /\ w.aircraft[h].type = aircraft[h].type
                  /\ w.aircraft[h].current_flight = aircraft[h].current_flight
                  /\ w.aircraft[h].flight.id = aircraft[h].flight.id

\* C12: an aircraft's current_flight label and its Flight stay in step, also
\* after a call that raised: whenever the label changes the Flight is
\* replaced by a fresh one in the same call.  (A replaced Flight is no longer
\* referenced, so a Flight that stays after a label change is the one that
\* later updates mutate and draw Dropouts from.)
C12_LabelAndFlightInStep ==
    [][\A h \in DOMAIN aircraft :
          aircraft'[h].current_flight # aircraft[h].current_flight =>
            aircraft'[h].flight.id = aircraft[h].flight.id + 1]_vars

\* C13: in Aircraft.process_update (a non-stale update for a known hex) a
\* field missing from the update keeps the stored value and a field present
\* becomes the stored value: registration from r, type from t, current_flight
\* from flight; without a flight field the Flight is not replaced.
C13_AbsentKeepsPresentOverwrites ==
    CanCall =>
      \A u \in Updates, t \in Times :
        (~ClaimStale(u) /\ Known(u)) =>
          LET old == aircraft[u["hex"]]
              a == After(u, t).aircraft[u["hex"]]
          IN /\ a.registration =
                   (IF "r" \in DOMAIN u THEN Some(u["r"]) ELSE old.registration)
             /\ a.type = (IF "t" \in DOMAIN u THEN Some(u["t"]) ELSE old.type)
             /\ a.current_flight =
                   (IF "flight" \in DOMAIN u THEN u["flight"] ELSE old.current_flight)
             /\ "flight" \notin DOMAIN u => a.flight.id = old.flight.id

\* an aircraft with a registration, a type and a label that is not its
\* default gets an update with a position and none of r, t and flight
C13_Witness ==
    /\ CanCall
    /\ \E u \in Updates, t \in Times :
          /\ ~ClaimStale(u) /\ Known(u) /\ HasPosition(u)
          /\ DOMAIN u \cap {"r", "t", "flight"} = {}
          /\ aircraft[u["hex"]].registration = Some("R1")
          /\ aircraft[u["hex"]].type = Some("T1")
          /\ aircraft[u["hex"]].current_flight = "h1"
          /\ aircraft[u["hex"]].flight.id = 1
          /\ LET a == After(u, t).aircraft[u["hex"]]
             IN /\ a.registration = Some("R1") /\ a.type = Some("T1")
                /\ a.current_flight = "h1" /\ a.flight.id = 1
                /\ a.flight.last_position = Some(Position(u, t))

\* C14: a non-stale update for a known hex without a usable lat or lon and
\* without a differing flight label leaves the Flight's last_position
\* unchanged and yields no Dropout; the stored last_position is therefore
\* that of the last accepted valid-position update (lastfix), and the next
\* valid-position update yields a Dropout exactly when it comes 60 s or more
\* after that one.
C14_GapFromLastValidPosition ==
    /\ \A h \in DOMAIN aircraft :
          LastPos(h) # None =>
            /\ h \in DOMAIN lastfix
            /\ lastfix[h].time = LastPos(h)[1].time
            /\ lastfix[h].flight = aircraft[h].flight.id
    /\ CanCall =>
         \A u \in Updates, t \in Times :
           (~ClaimStale(u) /\ Known(u) /\ ~NewLabel(u)) =>
             LET h == u["hex"]
                 w == After(u, t)
             IN /\ ~HasPosition(u) =>
                     /\ ~w.raised
                     /\ w.aircraft[h].flight = aircraft[h].flight
                     /\ w.dropouts = dropouts
                /\ (HasPosition(u) /\ u["type"] \in MessageType /\ LastPos(h) # None) =>
                     (Len(w.dropouts) = Len(dropouts) + 1
                        <=> t - lastfix[h].time >= 60)

\* a position at 0, then an update at 60 without lat, then a position at 60:
\* the Dropout starts at the position of time 0
C14_Witness ==
    /\ CanCall
    /\ \E u \in Updates, v \in Updates :
          /\ ~ClaimStale(u) /\ Known(u) /\ ~NewLabel(u)
          /\ "lat" \notin DOMAIN u
          /\ LastPos(u["hex"]) # None /\ LastPos(u["hex"])[1].time = 0
          /\ ~ClaimStale(v) /\ v["hex"] = u["hex"] /\ ~NewLabel(v) /\ HasPosition(v)
          /\ LET w1 == After(u, 60)
                 w2 == World_process_aircraft(
                           [aircraft |-> w1.aircraft, dropouts |-> w1.dropouts], v, 60)
             IN /\ w1.aircraft = aircraft /\ w1.dropouts = dropouts
                /\ w2.dropouts =
                      Append(dropouts,
                             Dropout(u["hex"], LastPos(u["hex"])[1], Position(v, 60)))

\* An update that reaches the Flight of its aircraft with a position and an
\* observation time earlier than that of the Flight's last_position.
Earlier(u, t) ==
    /\ ~ClaimStale(u) /\ Known(u) /\ ~NewLabel(u) /\ HasPosition(u)
    /\ LastPos(u["hex"]) # None
    /\ t < LastPos(u["hex"])[1].time

\* C15 as stated: every valid-position update with an observation time
\* earlier than the stored last_position.time is accepted without error,
\* yields no Dropout and overwrites last_position with the earlier-timed
\* Position, and the following valid-position update yields a Dropout exactly
\* when it is 60 s or more after that earlier time.
C15_EarlierAccepted ==
    CanCall =>
      \A u \in Updates, t \in Times :
        Earlier(u, t) =>
          LET h == u["hex"]
              w1 == After(u, t)
          IN /\ ~w1.raised
             /\ w1.dropouts = dropouts
             /\ w1.aircraft[h].flight.last_position = Some(Position(u, t))
             /\ \A v \in Updates, t2 \in Times :
                   (/\ v["hex"] = h /\ ~ClaimStale(v) /\ HasPosition(v)
                    /\ v["type"] \in MessageType
                    /\ "flight" \in DOMAIN v => v["flight"] = w1.aircraft[h].current_flight) =>
                     LET w2 == World_process_aircraft(
                                   [aircraft |-> w1.aircraft, dropouts |-> w1.dropouts],
                                   v, t2)
                     IN Len(w2.dropouts) = Len(dropouts) + 1 <=> t2 - t >= 60

\* C15 amended: the same for every such update whose type is in the closed
\* set of message kinds (with another type the call raises and leaves
\* last_position as it was).
C15_EarlierWellFormedAccepted ==
    CanCall =>
      \A u \in Updates, t \in Times :
        Earlier(u, t) =>
          IF u["type"] \in MessageType
          THEN
            LET h == u["hex"]
                w1 == After(u, t)
            IN /\ ~w1.raised
               /\ w1.dropouts = dropouts
               /\ w1.aircraft[h].flight.last_position = Some(Position(u, t))
               /\ \A v \in Updates, t2 \in Times :
                     (/\ v["hex"] = h /\ ~ClaimStale(v) /\ HasPosition(v)
                      /\ v["type"] \in MessageType
                      /\ "flight" \in DOMAIN v => v["flight"] = w1.aircraft[h].current_flight) =>
                       LET w2 == World_process_aircraft(
                                     [aircraft |-> w1.aircraft, dropouts |-> w1.dropouts],
                                     v, t2)
                       IN Len(w2.dropouts) = Len(dropouts) + 1 <=> t2 - t >= 60
          ELSE /\ After(u, t).raised
               /\ After(u, t).dropouts = dropouts
               /\ After(u, t).aircraft[u["hex"]].flight = aircraft[u["hex"]].flight

\* a last position at 120, a position delivered with time 0 that replaces it
\* silently, and a position at 60 that then yields a Dropout from 0 to 60
C15_Witness ==
    /\ CanCall
    /\ \E u \in Updates, v \in Updates :
          /\ Earlier(u, 0) /\ u["type"] \in MessageType
          /\ LastPos(u["hex"])[1].time = 120
          /\ v["hex"] = u["hex"] /\ ~ClaimStale(v) /\ HasPosition(v)
          /\ "flight" \notin DOMAIN v /\ v["type"] \in MessageType
          /\ LET w1 == After(u, 0)
                 w2 == World_process_aircraft(
                           [aircraft |-> w1.aircraft, dropouts |-> w1.dropouts], v, 60)
             IN /\ ~w1.raised /\ w1.dropouts = dropouts
                /\ w2.dropouts =
                      Append(dropouts, Dropout(u["hex"], Position(u, 0), Position(v, 60)))

\* C16: for any order of delivery every Dropout in dropouts spans at least
\* 60 s and belongs to a registered hex, and at the moment it is appended its
\* start is the last_position the aircraft's Flight had before the call and
\* its end the last_position the same Flight has after it.
C16_DropoutShape ==
    [][/\ \A i \in 1 .. Len(dropouts') :
             /\ dropouts'[i].end.time - dropouts'[i].start.time >= 60
             /\ dropouts'[i].hex \in DOMAIN aircraft'
       /\ Len(dropouts') > Len(dropouts) =>
             LET d == dropouts'[Len(dropouts')]
             IN /\ d.hex \in DOMAIN aircraft
                /\ aircraft'[d.hex].flight.id = aircraft[d.hex].flight.id
                /\ LastPos(d.hex) = Some(d.start)
                /\ aircraft'[d.hex].flight.last_position = Some(d.end)]_vars

\* a Dropout from 59 to 120, followed by a delivery with time 0
C16_Witness ==
    /\ Len(dropouts) = 1
    /\ dropouts[1].start.time = 59 /\ dropouts[1].end.time = 120
    /\ now = 0

\* The part of the World that concerns the hexes in S.
Restrict(m, S) == [k \in DOMAIN m \cap S |-> m[k]]
OfHex(ds, h) == SelectSeq(ds, LAMBDA d : d.hex = h)

\* C17: a call for hex h changes no Aircraft registered under another hex and
\* no other hex's dropouts, and what it does to the Aircraft of h and to the
\* dropouts of h is what it does in a World that holds h alone.  Two adjacent
\* updates for different hexes therefore give, in either order, the same
\* state of every aircraft and the same dropouts per hex.
C17_Independent ==
    CanCall =>
      \A u \in Updates, t \in Times :
        LET h == u["hex"]
            w == After(u, t)
            solo == World_process_aircraft(
                        [aircraft |-> Restrict(aircraft, {h}),
                         dropouts |-> OfHex(dropouts, h)], u, t)
        IN /\ \A k \in DOMAIN aircraft \ {h} :
                 k \in DOMAIN w.aircraft /\ w.aircraft[k] = aircraft[k]
           /\ DOMAIN w.aircraft \subseteq DOMAIN aircraft \cup {h}
           /\ \A k \in Hexes \ {h} : OfHex(w.dropouts, k) = OfHex(dropouts, k)
           /\ Restrict(w.aircraft, {h}) = solo.aircraft
           /\ OfHex(w.dropouts, h) = solo.dropouts
           /\ w.raised = solo.raised

\* both aircraft have a position at time 0; an update for each at 60 yields a
\* Dropout; the two orders give the same aircraft and the same dropouts per
\* hex, and lists that differ in their interleaving
C17_Witness ==
    /\ CanCall
    /\ DOMAIN aircraft = Hexes
    /\ \A h \in Hexes : LastPos(h) # None /\ LastPos(h)[1].time = 0
    /\ \E u \in Updates, v \in Updates :
          /\ u["hex"] = "h1" /\ v["hex"] = "h2"
          /\ LET Then(w, x) == World_process_aircraft(
                                   [aircraft |-> w.aircraft, dropouts |-> w.dropouts], x, 60)
                 uv == Then(After(u, 60), v)
                 vu == Then(After(v, 60), u)
             IN /\ uv.aircraft = vu.aircraft
                /\ \A h \in Hexes : OfHex(uv.dropouts, h) = OfHex(vu.dropouts, h)
                /\ Len(uv.dropouts) = Len(dropouts) + 2
                /\ uv.dropouts # vu.dropouts

\* C18: a call that raises (which it does only for a type outside the closed
\* set) leaves dropouts, the set of registered hexes and every Flight's
\* last_position unchanged.
C18_FailureKeepsPositions ==
    CanCall =>
      \A u \in Updates, t \in Times :
        After(u, t).raised =>
          /\ u["type"] \notin MessageType
          /\ After(u, t).dropouts = dropouts
          /\ DOMAIN After(u, t).aircraft = DOMAIN aircraft
          /\ \A h \in DOMAIN aircraft :
                After(u, t).aircraft[h].flight.last_position = LastPos(h)

\* a failing first sighting of one hex, and a failing update with a new
\* label for a known hex whose Flight has a position 60 s or more old
C18_Witness ==
    /\ CanCall
    /\ \E u \in Updates, v \in Updates, t \in Times :
          /\ ~Known(u) /\ After(u, t).raised
          /\ u["hex"] \notin DOMAIN After(u, t).aircraft
          /\ NewLabel(v) /\ LastPos(v["hex"]) # None
          /\ t - LastPos(v["hex"])[1].time >= 60
          /\ After(v, t).raised
          /\ After(v, t).dropouts = dropouts
          /\ After(v, t).aircraft[v["hex"]].flight.last_position = LastPos(v["hex"])

\* The label an aircraft gets when the registering update has no flight field.
DefaultLabel(r, h) == IF r # None /\ r[1] # "" THEN r[1] ELSE h

\* C19: an aircraft registered by an update without a flight field gets as
\* current_flight its registration if that is non-empty and its hex
\* otherwise; for an aircraft whose label is that default, an update whose
\* flight differs from it gets a new Flight and no Dropout whatever the gap,
\* and one whose flight equals it is forwarded to the existing Flight.
C19_DefaultLabel ==
    CanCall =>
      \A u \in Updates, t \in Times :
        LET h == u["hex"]
            w == After(u, t)
        IN /\ (~Known(u) /\ h \in DOMAIN w.aircraft /\ "flight" \notin DOMAIN u) =>
                w.aircraft[h].current_flight =
                    DefaultLabel(IF "r" \in DOMAIN u THEN Some(u["r"]) ELSE None, h)
           /\ (/\ ~ClaimStale(u) /\ Known(u) /\ "flight" \in DOMAIN u
               /\ aircraft[h].current_flight
                     = DefaultLabel(aircraft[h].registration, h)) =>
                IF u["flight"] # aircraft[h].current_flight
                THEN /\ w.aircraft[h].flight.id = aircraft[h].flight.id + 1
                     /\ w.dropouts = dropouts
                ELSE /\ w.aircraft[h].flight.id = aircraft[h].flight.id
                     /\ (HasPosition(u) /\ u["type"] \in MessageType) =>
                           /\ w.aircraft[h].flight.last_position = Some(Position(u, t))
                           /\ (LastPos(h) # None /\ t - LastPos(h)[1].time >= 60) =>
                                 Len(w.dropouts) = Len(dropouts) + 1

\* C20: great_circle raises no domain error: the value passed to the inverse
\* cosine lies in [-1.0, 1.0]; a value above 1.0 is replaced by 1.0, one
\* below -1.0 by -1.0, and one inside is passed unchanged.
C20_AcosArgumentClamped ==
    gc # None =>
      /\ ~gc[1].raised
      /\ gc[1].arg >= -One /\ gc[1].arg <= One
      /\ gc[1].x > One => gc[1].arg = One
      /\ gc[1].x < -One => gc[1].arg = -One
      /\ (gc[1].x >= -One /\ gc[1].x <= One) => gc[1].arg = gc[1].x

\* a value that rounding pushed below -1.0
C20_Witness == gc # None /\ gc[1].x < -One /\ gc[1].arg = -One /\ ~gc[1].raised
====
